---------------------------- MODULE Spec2Model ----------------------------
(***************************************************************************)
(* A model of the hierarchical virtual-memory layer of OS-EX4:             *)
(*   src/PhysicalMemory.cpp  the simulator: RAM, swapFile, evict_counter   *)
(*   src/VirtualMemory.cpp   translateAddress, findFrame, dfsSearch,       *)
(*                           VMinitialize, VMread, VMwrite                 *)
(* The program is single-threaded: every public call is one atomic step.   *)
(* The compile-time constants of MemoryConstants.h are not fixed by the    *)
(* sources; a build is one choice of the three bit widths, drawn in Init.  *)
(***************************************************************************)
EXTENDS Integers, Sequences, FiniteSets, TLC

VARIABLES
    cfg,            \* the build: OFFSET_WIDTH, PHYSICAL_ADDRESS_WIDTH, VIRTUAL_ADDRESS_WIDTH
    RAM,            \* std::vector<page_t> RAM: frame -> offset -> word
    swapFile,       \* std::unordered_map<uint64_t, page_t> swapFile
    evict_counter,  \* int evict_counter
    aborted,        \* an assert of the simulator failed: the process is gone
    lastOp,         \* the public call just made: [op, addr, value]
    ret,            \* its return code (VMread / VMwrite), -1 when it never returned
    out,            \* the caller's word_t that VMread last stored into
    calls,          \* the PMread/PMwrite/PMevict/PMrestore calls it made, in order
    faults,         \* the page-fault steps of its translateAddress, in order
    flat,           \* reference: the flat array of the words written so far
    written,        \* reference: the addresses written so far
    touched,        \* reference: the pages accessed in range so far
    restarted,      \* reference: VMinitialize was called after another call
    steps           \* number of public calls made

vars == <<cfg, RAM, swapFile, evict_counter, aborted, lastOp, ret, out,
          calls, faults, flat, written, touched, restarted, steps>>

(***************************************************************************)
(* Bounds of the model.                                                    *)
(***************************************************************************)
MaxOps == 3

\* public calls in a run of the page-by-page specification SpecPressure
MaxPressureOps == 5

\* the data words the callers write: one that is also a frame index of every
\* sized build below, one that is a frame index of none, and, in the build where
\* data words land in the root table and are read back as entries, a negative one
Values == IF cfg.PHYSICAL_ADDRESS_WIDTH = cfg.OFFSET_WIDTH THEN {1, 5, -1} ELSE {1, 5}

(***************************************************************************)
(* MemoryConstants.h                                                       *)
(***************************************************************************)
Pow2(n) == 2 ^ n

OFFSET_WIDTH == cfg.OFFSET_WIDTH
PHYSICAL_ADDRESS_WIDTH == cfg.PHYSICAL_ADDRESS_WIDTH
VIRTUAL_ADDRESS_WIDTH == cfg.VIRTUAL_ADDRESS_WIDTH
PAGE_SIZE == Pow2(OFFSET_WIDTH)
RAM_SIZE == Pow2(PHYSICAL_ADDRESS_WIDTH)
VIRTUAL_MEMORY_SIZE == Pow2(VIRTUAL_ADDRESS_WIDTH)
NUM_FRAMES == RAM_SIZE \div PAGE_SIZE
NUM_PAGES == VIRTUAL_MEMORY_SIZE \div PAGE_SIZE
\* CEIL((VIRTUAL_ADDRESS_WIDTH - OFFSET_WIDTH) / OFFSET_WIDTH)
TABLES_DEPTH == ((VIRTUAL_ADDRESS_WIDTH - OFFSET_WIDTH) + OFFSET_WIDTH - 1) \div OFFSET_WIDTH

Build(ow, paw, vaw) ==
    [OFFSET_WIDTH |-> ow, PHYSICAL_ADDRESS_WIDTH |-> paw, VIRTUAL_ADDRESS_WIDTH |-> vaw]

\* sized builds (NUM_FRAMES >= TABLES_DEPTH + 1):
\*   two table levels, 4 frames, 4 pages of 2 words
\*   one table level,  2 frames, 4 pages of 4 words
SizedBuilds == {Build(1, 3, 3), Build(2, 3, 4)}

\* a sized build with more pages than frames under two table levels:
\*   4 frames, 8 pages of 2 words, TABLES_DEPTH = 3
PressureBuilds == {Build(1, 3, 4)}

\* a build too small to hold one path: NUM_FRAMES = 1, TABLES_DEPTH = 1
TinyBuilds == {Build(1, 1, 2)}

\* a sized build with one table level and room for three leaves:
\*   4 frames, 4 pages of 4 words, TABLES_DEPTH = 1
RoomyBuilds == {Build(2, 4, 4)}

Sized == NUM_FRAMES >= TABLES_DEPTH + 1

(***************************************************************************)
(* C++ integer operators.  A word_t is a signed int; a uint64_t u is held  *)
(* as the integer u when u < 2^63 and as u - 2^64 otherwise, so that the   *)
(* conversion of a negative word_t to uint64_t (a frame index taken from a *)
(* table entry) keeps the integer, + and * on the small values of the      *)
(* model are exact modulo 2^64, and only the comparisons differ: a         *)
(* negative integer stands for a value above every bound of the program.   *)
(***************************************************************************)
\* a < b on uint64_t, for a bound 0 <= b < 2^63
ULess(a, b) == a >= 0 /\ a < b

\* a >= b on uint64_t, for a bound 0 <= b < 2^63
UGreaterEq(a, b) == a < 0 \/ a >= b

ShiftRight(x, n) == x \div Pow2(n)
ShiftLeft(x, n) == x * Pow2(n)

RECURSIVE BitOr(_, _)
BitOr(a, b) ==
    IF a = 0 THEN b
    ELSE IF b = 0 THEN a
    ELSE (IF a % 2 = 1 \/ b % 2 = 1 THEN 1 ELSE 0) + 2 * BitOr(a \div 2, b \div 2)

\* (uint64_t)(-1)
INVALID_PHYSICAL_ADDRESS == -1

(***************************************************************************)
(* src/PhysicalMemory.cpp.  A machine state m is                           *)
(*   [RAM, swapFile, evict_counter, aborted, calls, faults]                *)
(* threaded through the calls of one public operation.  A failed assert    *)
(* aborts the process: nothing after it has any effect.                    *)
(***************************************************************************)
Frames == 0 .. (NUM_FRAMES - 1)
Offsets == 0 .. (PAGE_SIZE - 1)

\* C9's mutant: a simulator whose frames do not start zeroed
initializeDirty == [f \in Frames |-> [o \in Offsets |-> 1]]

\* RAM.resize(NUM_FRAMES, page_t(PAGE_SIZE)): every word value-initialised to 0.
\* Every PM call runs it first on an empty RAM, so the RAM any call sees is this.
initialize == [f \in Frames |-> [o \in Offsets |-> 0]]

Log(m, call) == [m EXCEPT !.calls = Append(@, call)]

Abort(m) == [m EXCEPT !.aborted = TRUE]

\* returns the machine and *value
PMread(m, physicalAddress) ==
    IF m.aborted THEN [m |-> m, value |-> 0]
    ELSE LET m1 == Log(m, <<"PMread", physicalAddress>>) IN
         IF ~ULess(physicalAddress, RAM_SIZE)
         THEN [m |-> Abort(m1), value |-> 0]
         ELSE [m |-> m1,
               value |-> m.RAM[physicalAddress \div PAGE_SIZE][physicalAddress % PAGE_SIZE]]

PMwrite(m, physicalAddress, value) ==
    IF m.aborted THEN m
    ELSE LET m1 == Log(m, <<"PMwrite", physicalAddress, value>>) IN
         IF ~ULess(physicalAddress, RAM_SIZE)
         THEN Abort(m1)
         ELSE [m1 EXCEPT !.RAM[physicalAddress \div PAGE_SIZE][physicalAddress % PAGE_SIZE] = value]

\* swapFile[evictedPageIndex] = RAM[frameIndex]
SwapPut(swap, page, contents) ==
    [q \in (DOMAIN swap) \cup {page} |-> IF q = page THEN contents ELSE swap[q]]

\* swapFile.erase(restoredPageIndex)
SwapErase(swap, page) ==
    [q \in (DOMAIN swap) \ {page} |-> swap[q]]

PMevict(m, frameIndex, evictedPageIndex) ==
    IF m.aborted THEN m
    ELSE LET m1 == Log(m, <<"PMevict", frameIndex, evictedPageIndex>>) IN
         IF \/ evictedPageIndex \in DOMAIN m.swapFile
            \/ ~ULess(frameIndex, NUM_FRAMES)
            \/ ~ULess(evictedPageIndex, NUM_PAGES)
         THEN Abort(m1)
         ELSE [m1 EXCEPT !.swapFile = SwapPut(@, evictedPageIndex, m.RAM[frameIndex]),
                         !.evict_counter = @ + 1]

\* C6's mutant: the page is copied back and its swap entry is kept
PMrestoreKeepsSwap(m, frameIndex, restoredPageIndex) ==
    IF m.aborted THEN m
    ELSE LET m1 == Log(m, <<"PMrestore", frameIndex, restoredPageIndex>>) IN
         IF ~ULess(frameIndex, NUM_FRAMES) THEN Abort(m1)
         ELSE IF restoredPageIndex \notin DOMAIN m.swapFile THEN m1
         ELSE [m1 EXCEPT !.RAM[frameIndex] = m.swapFile[restoredPageIndex]]

PMrestore(m, frameIndex, restoredPageIndex) ==
    IF m.aborted THEN m
    ELSE LET m1 == Log(m, <<"PMrestore", frameIndex, restoredPageIndex>>) IN
         IF ~ULess(frameIndex, NUM_FRAMES) THEN Abort(m1)
         ELSE IF restoredPageIndex \notin DOMAIN m.swapFile THEN m1
         ELSE [m1 EXCEPT !.RAM[frameIndex] = m.swapFile[restoredPageIndex],
                         !.swapFile = SwapErase(@, restoredPageIndex)]


(***************************************************************************)
(* src/VirtualMemory.cpp: address arithmetic.                              *)
(***************************************************************************)
extractBits(virtualAddress, level) ==
    LET pageNumber == ShiftRight(virtualAddress, OFFSET_WIDTH)
        shift == (TABLES_DEPTH - 1 - level) * OFFSET_WIDTH
        mask == ShiftLeft(1, OFFSET_WIDTH) - 1
    IN  ShiftRight(pageNumber, shift) % (mask + 1)

getPageNumber(virtualAddress) == ShiftRight(virtualAddress, OFFSET_WIDTH)

getOffset(virtualAddress) ==
    LET mask == ShiftLeft(1, OFFSET_WIDTH) - 1
    IN  virtualAddress % (mask + 1)

cyclicalDistance(page1, page2) ==
    LET direct == IF page1 > page2 THEN page1 - page2 ELSE page2 - page1
        wraparound == NUM_PAGES - direct
    IN  IF direct < wraparound THEN direct ELSE wraparound

(***************************************************************************)
(* The frame finder.  The by-reference accumulators of dfsSearch are the   *)
(* record                                                                  *)
(*   [bestFrame, bestType, bestPageToEvict, bestParentFrame,               *)
(*    bestParentIndex, maxFrame, bestDistance, m, deepest]                 *)
(* with m the machine (the search only reads it, through PMread) and       *)
(* deepest the largest depth at which dfsSearch was entered so far.        *)
(* bestType: 0 none, 1 empty table, 2 unused frame, 3 evict.               *)
(***************************************************************************)
\* the leaf branch of dfsSearch: depth == TABLES_DEPTH
dfsLeaf(frameIndex, virtualAddressBase, targetPage, parentFrame, parentIndex, acc) ==
    LET currentPage == ShiftRight(virtualAddressBase, OFFSET_WIDTH)
        distance == cyclicalDistance(targetPage, currentPage)
    IN  IF /\ currentPage # targetPage
           /\ acc.bestType # 1 /\ acc.bestType # 2
           /\ (acc.bestType # 3 \/ distance > acc.bestDistance)
        THEN [acc EXCEPT !.bestType = 3,
                         !.bestFrame = frameIndex,
                         !.bestPageToEvict = currentPage,
                         !.bestParentFrame = parentFrame,
                         !.bestParentIndex = parentIndex,
                         !.bestDistance = distance]
        ELSE acc

\* the test that closes the table branch of dfsSearch
dfsEmptyTable(isEmpty, isInTargetPath, bestType) ==
    isEmpty /\ ~isInTargetPath /\ bestType # 1

RECURSIVE dfsSearch(_, _, _, _, _, _, _)
RECURSIVE dfsScan(_, _, _, _, _, _, _, _)

\* one turn of the for loop of dfsSearch: rd is what PMread gave for entry i
dfsEntry(frameIndex, virtualAddressBase, depth, targetPage, i, isEmpty, isInTargetPath, acc, rd) ==
    IF rd.value # 0
    THEN dfsScan(frameIndex, virtualAddressBase, depth, targetPage, i + 1,
                 FALSE,
                 isInTargetPath
                     \/ (i = extractBits(ShiftLeft(targetPage, OFFSET_WIDTH), depth)),
                 dfsSearch(rd.value,
                           BitOr(virtualAddressBase,
                                 ShiftLeft(i, (TABLES_DEPTH - 1 - depth) * OFFSET_WIDTH)),
                           depth + 1, targetPage, frameIndex, i,
                           [acc EXCEPT !.m = rd.m]))
    ELSE dfsScan(frameIndex, virtualAddressBase, depth, targetPage, i + 1,
                 isEmpty, isInTargetPath, [acc EXCEPT !.m = rd.m])

\* the for loop of dfsSearch over the entries of table frameIndex, from entry i on;
\* returns the accumulators with the two flags of the loop
dfsScan(frameIndex, virtualAddressBase, depth, targetPage, i, isEmpty, isInTargetPath, acc) ==
    IF i >= PAGE_SIZE
    THEN [acc |-> acc, isEmpty |-> isEmpty, isInTargetPath |-> isInTargetPath]
    ELSE dfsEntry(frameIndex, virtualAddressBase, depth, targetPage, i,
                  isEmpty, isInTargetPath, acc,
                  PMread(acc.m, frameIndex * PAGE_SIZE + i))

\* the end of the table branch of dfsSearch: r is what the loop left
dfsTable(frameIndex, parentFrame, parentIndex, r) ==
    IF dfsEmptyTable(r.isEmpty, r.isInTargetPath, r.acc.bestType)
    THEN [r.acc EXCEPT !.bestType = 1,
                       !.bestFrame = frameIndex,
                       !.bestParentFrame = parentFrame,
                       !.bestParentIndex = parentIndex]
    ELSE r.acc

\* if (frameIndex > maxFrame) maxFrame = frameIndex
dfsMaxFrame(frameIndex, acc) ==
    IF frameIndex > acc.maxFrame THEN [acc EXCEPT !.maxFrame = frameIndex] ELSE acc

\* the activation of dfsSearch at `depth` that got past the frame test
dfsEnter(depth, acc) ==
    IF depth > acc.deepest THEN [acc EXCEPT !.deepest = depth] ELSE acc

\* "If we've reached a leaf (actual page, not table)"
dfsAtLeaf(depth) == depth = TABLES_DEPTH

dfsSearch(frameIndex, virtualAddressBase, depth, targetPage, parentFrame, parentIndex, acc) ==
    IF frameIndex = 0 \/ UGreaterEq(frameIndex, NUM_FRAMES) THEN acc
    ELSE IF dfsAtLeaf(depth)
    THEN dfsLeaf(frameIndex, virtualAddressBase, targetPage, parentFrame, parentIndex,
                 dfsMaxFrame(frameIndex, dfsEnter(depth, acc)))
    ELSE dfsTable(frameIndex, parentFrame, parentIndex,
                  dfsScan(frameIndex, virtualAddressBase, depth, targetPage,
                          0, TRUE, FALSE, dfsMaxFrame(frameIndex, dfsEnter(depth, acc))))

RECURSIVE findFrameScan(_, _, _)

\* one turn of the for loop of findFrame: rd is what PMread gave for root entry i
findFrameEntry(targetPage, i, acc, rd) ==
    IF rd.value # 0
    THEN findFrameScan(targetPage, i + 1,
                       dfsSearch(rd.value,
                                 ShiftLeft(i, (TABLES_DEPTH - 1) * OFFSET_WIDTH),
                                 1, targetPage, 0, i, [acc EXCEPT !.m = rd.m]))
    ELSE findFrameScan(targetPage, i + 1, [acc EXCEPT !.m = rd.m])

\* the for loop of findFrame over the entries of the root table, from entry i on
findFrameScan(targetPage, i, acc) ==
    IF i >= PAGE_SIZE THEN acc
    ELSE findFrameEntry(targetPage, i, acc, PMread(acc.m, i))

\* C15's mutant: an unused frame is taken only when the search found nothing
findFrameUnusedLast(maxFrame, bestType) ==
    maxFrame + 1 < NUM_FRAMES /\ bestType = 0

\* the unused-frame test of findFrame
findFrameUnused(maxFrame, bestType) ==
    maxFrame + 1 < NUM_FRAMES /\ bestType # 1

\* "Check if there's an unused frame"
findFrameTakeUnused(acc) ==
    IF findFrameUnused(acc.maxFrame, acc.bestType)
    THEN [acc EXCEPT !.bestType = 2, !.bestFrame = acc.maxFrame + 1]
    ELSE acc

\* "Fallback"
findFrameFallback(acc) ==
    IF acc.bestFrame = 0 /\ acc.bestType = 0 /\ NUM_FRAMES > 1
    THEN [acc EXCEPT !.bestType = 2, !.bestFrame = 1]
    ELSE acc

\* the out-parameters and the return value of findFrame
findFrameResult(acc) ==
    [m |-> acc.m,
     newFrame |-> acc.bestFrame,
     frameType |-> acc.bestType,
     pageToEvict |-> acc.bestPageToEvict,
     parentFrame |-> acc.bestParentFrame,
     parentIndex |-> acc.bestParentIndex,
     maxFrame |-> acc.maxFrame,
     deepest |-> acc.deepest]

\* returns [m, newFrame, frameType, pageToEvict, parentFrame, parentIndex], with
\* the maxFrame and the deepest activation of its search
findFrame(m, targetPage) ==
    findFrameResult(findFrameFallback(findFrameTakeUnused(
        findFrameScan(targetPage, 0,
                      [bestFrame |-> 0, bestType |-> 0, bestPageToEvict |-> 0,
                       bestParentFrame |-> 0, bestParentIndex |-> 0,
                       maxFrame |-> 0, bestDistance |-> 0, m |-> m,
                       deepest |-> 0]))))

removeReference(m, parentFrame, parentIndex) ==
    IF ULess(parentFrame, NUM_FRAMES) /\ ULess(parentIndex, PAGE_SIZE)
    THEN PMwrite(m, parentFrame * PAGE_SIZE + parentIndex, 0)
    ELSE m

\* for (i = 0; i < PAGE_SIZE; i++) PMwrite(frame * PAGE_SIZE + i, 0), from word i on
RECURSIVE clearFrame(_, _, _)
clearFrame(m, frame, i) ==
    IF i >= PAGE_SIZE THEN m
    ELSE clearFrame(PMwrite(m, frame * PAGE_SIZE + i, 0), frame, i + 1)

\* "Handle frame types correctly": unlink the empty table, or unlink and evict
releaseFrame(m, ff) ==
    IF ff.frameType = 1
    THEN removeReference(m, ff.parentFrame, ff.parentIndex)
    ELSE IF ff.frameType = 3
    THEN PMevict(removeReference(m, ff.parentFrame, ff.parentIndex),
                 ff.newFrame, ff.pageToEvict)
    ELSE m

\* "Clear the frame if it will contain a table", else restore the page
prepareFrame(m, newFrame, level, pageNumber) ==
    IF level < TABLES_DEPTH - 1
    THEN clearFrame(m, newFrame, 0)
    ELSE PMrestore(m, newFrame, pageNumber)

\* C16's mutant: the new child pointer is written first
installFrameLinkFirst(m, ff, level, pageNumber, tableAddress) ==
    prepareFrame(releaseFrame(PMwrite(m, tableAddress, ff.newFrame), ff),
                 ff.newFrame, level, pageNumber)

\* the branch entry == 0 of translateAddress, after findFrame returned a usable
\* frame ff.newFrame: release it, prepare it, link it
installFrame(m, ff, level, pageNumber, tableAddress) ==
    PMwrite(prepareFrame(releaseFrame(m, ff), ff.newFrame, level, pageNumber),
            tableAddress, ff.newFrame)

\* the result of translateAddress once the loop over the levels has ended
physicalAddressOf(currentFrame, virtualAddress) ==
    IF UGreaterEq(currentFrame * PAGE_SIZE + getOffset(virtualAddress), RAM_SIZE)
    THEN INVALID_PHYSICAL_ADDRESS
    ELSE currentFrame * PAGE_SIZE + getOffset(virtualAddress)

\* the value translateAddress returns when findFrame gave no usable frame
NO_FRAME_RESULT == 0

\* the record of one page-fault step: what findFrame was asked and what it
\* answered, with the frames walked so far (root first, currentFrame last), the
\* memory it searched, the number of PM calls made when it returned (`at`), and,
\* once the new frame is linked (`done`), the memory at that moment (`linked`)
Fault(m, ff, virtualAddress, level, currentFrame, path) ==
    [level |-> level,
     page |-> getPageNumber(virtualAddress),
     currentFrame |-> currentFrame,
     path |-> path,
     tableAddress |-> currentFrame * PAGE_SIZE + extractBits(virtualAddress, level),
     newFrame |-> ff.newFrame,
     frameType |-> ff.frameType,
     pageToEvict |-> ff.pageToEvict,
     parentFrame |-> ff.parentFrame,
     parentIndex |-> ff.parentIndex,
     maxFrame |-> ff.maxFrame,
     deepest |-> ff.deepest,
     RAM |-> m.RAM,
     swapped |-> DOMAIN m.swapFile,
     at |-> Len(ff.m.calls),
     done |-> FALSE,
     linked |-> m.RAM]

\* nothing runs in a process that died in an assert: no findFrame call is made
LogFault(m, fault) ==
    IF m.aborted THEN m ELSE [m EXCEPT !.faults = Append(@, fault)]

\* currentFrame = newFrame: the fault step is over
LogLinked(m) ==
    IF m.aborted THEN m
    ELSE [m EXCEPT !.faults[Len(m.faults)].done = TRUE,
                   !.faults[Len(m.faults)].linked = m.RAM]

RECURSIVE translateLevels(_, _, _, _, _)

\* C20's mutant: the level is walked again after its fault step
translateFaultAgain(m, ff, virtualAddress, level, currentFrame, path) ==
    IF ff.newFrame = 0 \/ UGreaterEq(ff.newFrame, NUM_FRAMES)
    THEN [m |-> LogFault(ff.m, Fault(m, ff, virtualAddress, level, currentFrame, path)),
          physicalAddress |-> NO_FRAME_RESULT]
    ELSE translateLevels(
             LogLinked(installFrame(
                 LogFault(ff.m, Fault(m, ff, virtualAddress, level, currentFrame, path)),
                 ff, level, getPageNumber(virtualAddress),
                 currentFrame * PAGE_SIZE + extractBits(virtualAddress, level))),
             virtualAddress, level, currentFrame, path)

\* the branch entry == 0: ff is what findFrame returned, m the machine before it
translateFault(m, ff, virtualAddress, level, currentFrame, path) ==
    IF ff.newFrame = 0 \/ UGreaterEq(ff.newFrame, NUM_FRAMES)
    THEN [m |-> LogFault(ff.m, Fault(m, ff, virtualAddress, level, currentFrame, path)),
          physicalAddress |-> NO_FRAME_RESULT]
    ELSE translateLevels(
             LogLinked(installFrame(
                 LogFault(ff.m, Fault(m, ff, virtualAddress, level, currentFrame, path)),
                 ff, level, getPageNumber(virtualAddress),
                 currentFrame * PAGE_SIZE + extractBits(virtualAddress, level))),
             virtualAddress, level + 1, ff.newFrame, Append(path, ff.newFrame))

\* one level of the walk: rd is what PMread gave for the table entry
translateEntry(rd, virtualAddress, level, currentFrame, path) ==
    IF rd.value = 0
    THEN translateFault(rd.m, findFrame(rd.m, getPageNumber(virtualAddress)),
                        virtualAddress, level, currentFrame, path)
    ELSE translateLevels(rd.m, virtualAddress, level + 1, rd.value,
                         Append(path, rd.value))

\* the loop of translateAddress from `level` on; path lists the frames walked so
\* far, root first, currentFrame last.  Returns [m, physicalAddress]; the walk
\* of a process that died in an assert stops there and returns nothing.
translateLevels(m, virtualAddress, level, currentFrame, path) ==
    IF m.aborted
    THEN [m |-> m, physicalAddress |-> INVALID_PHYSICAL_ADDRESS]
    ELSE IF level >= TABLES_DEPTH
    THEN [m |-> m, physicalAddress |-> physicalAddressOf(currentFrame, virtualAddress)]
    ELSE IF UGreaterEq(currentFrame * PAGE_SIZE + extractBits(virtualAddress, level),
                       RAM_SIZE)
    THEN [m |-> m, physicalAddress |-> INVALID_PHYSICAL_ADDRESS]
    ELSE translateEntry(
             PMread(m, currentFrame * PAGE_SIZE + extractBits(virtualAddress, level)),
             virtualAddress, level, currentFrame, path)

translateAddress(m, virtualAddress) ==
    translateLevels(m, virtualAddress, 0, 0, <<0>>)

(***************************************************************************)
(* src/VirtualMemory.cpp: the public calls.  Each returns [m, ret, value]: *)
(* the machine, the return code and the caller's word after the call.      *)
(***************************************************************************)
VMinitialize(m) == clearFrame(m, 0, 0)

\* C3's mutant: the bounds test off by one
outOfRangeOffByOne(virtualAddress) == virtualAddress > VIRTUAL_MEMORY_SIZE

\* the bounds test of VMread and VMwrite
outOfRange(virtualAddress) == UGreaterEq(virtualAddress, VIRTUAL_MEMORY_SIZE)

\* PMread(physicalAddress, value); return 1
VMreadWord(rd) == [m |-> rd.m, ret |-> 1, value |-> rd.value]

\* VMread after the translation t
VMreadAt(t, value) ==
    IF t.physicalAddress = INVALID_PHYSICAL_ADDRESS
    THEN [m |-> t.m, ret |-> 0, value |-> value]
    ELSE VMreadWord(PMread(t.m, t.physicalAddress))

VMread(m, virtualAddress, value) ==
    IF outOfRange(virtualAddress) THEN [m |-> m, ret |-> 0, value |-> value]
    ELSE VMreadAt(translateAddress(m, virtualAddress), value)

\* VMwrite after the translation t
VMwriteAt(t, value) ==
    IF t.physicalAddress = INVALID_PHYSICAL_ADDRESS
    THEN [m |-> t.m, ret |-> 0, value |-> value]
    ELSE [m |-> PMwrite(t.m, t.physicalAddress, value), ret |-> 1, value |-> value]

VMwrite(m, virtualAddress, value) ==
    IF outOfRange(virtualAddress) THEN [m |-> m, ret |-> 0, value |-> value]
    ELSE VMwriteAt(translateAddress(m, virtualAddress), value)

(***************************************************************************)
(* The state machine: one step per public call.                            *)
(***************************************************************************)
\* the machine a public call starts from
Machine ==
    [RAM |-> RAM, swapFile |-> swapFile, evict_counter |-> evict_counter,
     aborted |-> FALSE, calls |-> <<>>, faults |-> <<>>]

\* the empty std::unordered_map
EmptySwap == [q \in {} |-> 0]

InitWith(builds) ==
    /\ cfg \in builds
    /\ RAM = initialize
    /\ swapFile = EmptySwap
    /\ evict_counter = 0
    /\ aborted = FALSE
    /\ lastOp = [op |-> "none", addr |-> 0, value |-> 0]
    /\ ret = 0
    /\ out = 0
    /\ calls = <<>>
    /\ faults = <<>>
    /\ flat = [a \in {} |-> 0]
    /\ written = {}
    /\ touched = {}
    /\ restarted = FALSE
    /\ steps = 0

Init == InitWith(SizedBuilds \cup TinyBuilds)

\* what a call leaves behind: a call that died in an assert never returned
Commit(r, op, addr, value) ==
    /\ RAM' = r.m.RAM
    /\ swapFile' = r.m.swapFile
    /\ evict_counter' = r.m.evict_counter
    /\ aborted' = r.m.aborted
    /\ calls' = r.m.calls
    /\ faults' = r.m.faults
    /\ ret' = IF r.m.aborted THEN -1 ELSE r.ret
    /\ lastOp' = [op |-> op, addr |-> addr, value |-> value]
    /\ steps' = steps + 1
    /\ cfg' = cfg

CanCall ==
    /\ ~aborted
    /\ steps < (IF cfg \in PressureBuilds \cup RoomyBuilds
                THEN MaxPressureOps ELSE MaxOps)

Touch(addr) ==
    touched' = IF addr < VIRTUAL_MEMORY_SIZE
               THEN touched \cup {getPageNumber(addr)} ELSE touched

VMinitializeReturn(m) ==
    /\ Commit([m |-> m, ret |-> 0], "init", 0, 0)
    /\ restarted' = (restarted \/ steps > 0)
    /\ UNCHANGED <<out, flat, written, touched>>

VMinitializeCall ==
    /\ CanCall
    /\ VMinitializeReturn(VMinitialize(Machine))

VMreadReturn(r, addr) ==
    /\ Commit(r, "read", addr, 0)
    /\ out' = IF r.m.aborted THEN out ELSE r.value
    /\ Touch(addr)
    /\ UNCHANGED <<flat, written, restarted>>

VMreadCall(addr) ==
    /\ CanCall
    /\ VMreadReturn(VMread(Machine, addr, out), addr)

VMwriteReturn(r, addr, value) ==
    /\ Commit(r, "write", addr, value)
    /\ IF r.ret = 1 /\ ~r.m.aborted
       THEN /\ written' = written \cup {addr}
            /\ flat' = [a \in written \cup {addr} |-> IF a = addr THEN value ELSE flat[a]]
       ELSE UNCHANGED <<flat, written>>
    /\ Touch(addr)
    /\ UNCHANGED <<out, restarted>>

VMwriteCall(addr, value) ==
    /\ CanCall
    /\ VMwriteReturn(VMwrite(Machine, addr, value), addr, value)

\* the addresses the callers pass: every word of a page of up to two words, the
\* first and the last word of a larger page, and two addresses past the end
Addresses ==
    {a \in 0 .. (VIRTUAL_MEMORY_SIZE + 1) :
        a >= VIRTUAL_MEMORY_SIZE \/ getOffset(a) \in {0, PAGE_SIZE - 1}}

Next ==
    \/ VMinitializeCall
    \/ \E addr \in Addresses : VMreadCall(addr)
    \/ \E addr \in Addresses : \E value \in Values : VMwriteCall(addr, value)

Spec == Init /\ [][Next]_vars

\* Page by page: a build with more pages than frames, each call a write to the
\* first word of a page, long enough to touch more pages than there are frames.
InitPressure == InitWith(PressureBuilds)

NextPressure ==
    \E page \in 0 .. (NUM_PAGES - 1) :
        \E value \in Values \ Frames : VMwriteCall(page * PAGE_SIZE, value)

SpecPressure == InitPressure /\ [][NextPressure]_vars

\* Page by page in the build with one table level and three frames for leaves.
InitRoomy == InitWith(RoomyBuilds)

SpecRoomy == InitRoomy /\ [][NextPressure]_vars

(***************************************************************************)
(* The vocabulary of the properties: the table tree as the memory holds    *)
(* it, read off RAM the way the walker reads it.                           *)
(***************************************************************************)
\* the frames reached from the root by d dereferences of non-zero entries
RECURSIVE FramesAt(_)
FramesAt(d) ==
    IF d = 0 THEN {0}
    ELSE {RAM[f][i] : f \in FramesAt(d - 1), i \in Offsets} \cap (1 .. (NUM_FRAMES - 1))

\* the table frames of the tree, the root among them
Tables == UNION {FramesAt(d) : d \in 0 .. (TABLES_DEPTH - 1)}

\* the (parentFrame, parentIndex) slots of the tree that hold a child
Slots == {s \in Tables \X Offsets : RAM[s[1]][s[2]] # 0}

\* the leaf frame that maps page q, walking from frame f at `level`; -1 when an
\* entry on the way is empty or no frame
RECURSIVE LeafOf(_, _, _)
LeafOf(f, q, level) ==
    IF level = TABLES_DEPTH THEN f
    ELSE LET e == RAM[f][extractBits(ShiftLeft(q, OFFSET_WIDTH), level)]
         IN  IF e \notin 1 .. (NUM_FRAMES - 1) THEN -1 ELSE LeafOf(e, q, level + 1)

Resident(q) == LeafOf(0, q, 0) # -1

InRangeCall == lastOp.op \in {"read", "write"} /\ lastOp.addr < VIRTUAL_MEMORY_SIZE

(***************************************************************************)
(* C1  Round-trip: a VMwrite(v, x) to an in-range address immediately      *)
(* followed by VMread(v, &y) succeeds both times and yields y = x.         *)
(* Fails on the code: with two or more table levels the walker takes the   *)
(* table it has just linked as an "empty table", unlinks it and stores the *)
(* page in it, and the next walk zeroes that frame again.                  *)
(***************************************************************************)
C1_RoundTrip ==
    [][(/\ lastOp.op = "write" /\ lastOp.addr < VIRTUAL_MEMORY_SIZE
        /\ ~restarted /\ Sized
        /\ steps' = steps + 1
        /\ lastOp'.op = "read" /\ lastOp'.addr = lastOp.addr)
       => (ret = 1 /\ ret' = 1 /\ out' = lastOp.value)]_vars

(***************************************************************************)
(* C2  Durability: every VMread of a previously written address returns    *)
(* the value of the most recent VMwrite to it, whatever was accessed in    *)
(* between: the memory is observationally the flat array `flat`.           *)
(* Fails on the code (see C1, and C11 for builds with one table level).    *)
(***************************************************************************)
C2_Durability ==
    (Sized /\ ~restarted /\ lastOp.op = "read" /\ lastOp.addr \in written)
        => (ret = 1 /\ out = flat[lastOp.addr])

(***************************************************************************)
(* C3  Bounds: a VMread or VMwrite of an address >= VIRTUAL_MEMORY_SIZE    *)
(* returns 0, makes no PM call and leaves RAM, the swap map, the eviction  *)
(* counter and the caller's word unchanged.                                *)
(***************************************************************************)
C3_Bounds ==
    [][(/\ steps' = steps + 1
        /\ lastOp'.op \in {"read", "write"}
        /\ lastOp'.addr >= VIRTUAL_MEMORY_SIZE)
       => (/\ ret' = 0 /\ ~aborted'
           /\ calls' = <<>>
           /\ RAM' = RAM /\ swapFile' = swapFile
           /\ evict_counter' = evict_counter
           /\ out' = out)]_vars

\* an out-of-range write arrived at a memory that holds tables and a swapped page
C3_Witness ==
    /\ lastOp.op = "write" /\ lastOp.addr >= VIRTUAL_MEMORY_SIZE
    /\ ret = 0
    /\ RAM # initialize
    /\ DOMAIN swapFile # {}

(***************************************************************************)
(* C4  In a sized build every in-range VMread / VMwrite returns 1, and     *)
(* every address it hands to PMread or PMwrite is below RAM_SIZE.          *)
(* Fails on the code: a call can die in the assert of PMevict (see C12),   *)
(* and then it returns nothing.                                            *)
(***************************************************************************)
C4_InRangeSucceeds ==
    (Sized /\ InRangeCall)
        => /\ ret = 1
           /\ \A k \in 1 .. Len(calls) :
                  calls[k][1] \in {"PMread", "PMwrite"} => calls[k][2] < RAM_SIZE

(***************************************************************************)
(* C5  Uniqueness: in a sized build, after any sequence of VMread /        *)
(* VMwrite calls, no two slots of the table tree hold the same non-zero    *)
(* frame index.                                                            *)
(* Fails on the code: the fallback of findFrame hands out frame 1 as       *)
(* "unused" while a slot of the root still refers to it.                   *)
(***************************************************************************)
C5_Uniqueness ==
    (Sized /\ ~restarted /\ ~aborted)
        => \A s, t \in Slots :
               (s # t /\ RAM[s[1]][s[2]] \in 1 .. (NUM_FRAMES - 1))
                   => RAM[s[1]][s[2]] # RAM[t[1]][t[2]]

(***************************************************************************)
(* C6  Swap/RAM disjointness: no page index is a key of the swap map and   *)
(* at the same time mapped by a leaf frame reached from the root along its *)
(* level indices.                                                          *)
(***************************************************************************)
C6_SwapDisjoint ==
    \A q \in DOMAIN swapFile : ~Resident(q)

\* after an eviction: one page is in swap while another is resident
C6_Witness ==
    /\ evict_counter >= 1
    /\ DOMAIN swapFile # {}
    /\ \E q \in 0 .. (NUM_PAGES - 1) : Resident(q)
    /\ InRangeCall /\ ret = 1

(***************************************************************************)
(* C7  Root validity: after any sequence of VMinitialize / VMread /        *)
(* VMwrite calls every word of frame 0 is 0 or a frame index in            *)
(* [1, NUM_FRAMES): user data is never stored in frame 0.                  *)
(* Fails on the code in the build with NUM_FRAMES = 1: translateAddress    *)
(* returns 0 for "no frame", and VMwrite stores the value at address 0     *)
(* (see C18).  In the sized builds the invariant holds.                    *)
(***************************************************************************)
C7_RootValid ==
    \A i \in Offsets : RAM[0][i] = 0 \/ RAM[0][i] \in 1 .. (NUM_FRAMES - 1)

(***************************************************************************)
(* C8  Capacity forces replacement: once in-range accesses have been made  *)
(* to more distinct pages than there are frames, PMevict has been called   *)
(* at least once.                                                          *)
(* Fails on the code: with two or more table levels every walk ends with   *)
(* the root empty again, so no leaf is ever found to evict (see C10).      *)
(***************************************************************************)
C8_CapacityEvicts ==
    Cardinality(touched) > NUM_FRAMES => evict_counter >= 1

(***************************************************************************)
(* C9  Idempotence of init: VMinitialize() called first, on the            *)
(* simulator's all-zero RAM and empty swap, leaves RAM, the swap map and   *)
(* the eviction counter as they were; every call is a function of these    *)
(* and of its arguments, so the run that follows is the run without it.    *)
(***************************************************************************)
C9_InitIdempotent ==
    [][(steps = 0 /\ steps' = 1 /\ lastOp'.op = "init")
       => (/\ RAM' = RAM /\ swapFile' = swapFile
           /\ evict_counter' = evict_counter
           /\ ~aborted' /\ out' = out)]_vars

\* VMinitialize was the first call and has written the root table
C9_Witness ==
    /\ steps = 1 /\ lastOp.op = "init"
    /\ Len(calls) = PAGE_SIZE
    /\ ~restarted

(***************************************************************************)
(* C10  Path protection: the frame findFrame returns for a fault is never  *)
(* a frame on the path being built (the walker's currentFrame or one of    *)
(* its ancestors).                                                         *)
(* Fails on the code: isInTargetPath is only set for a non-empty table,    *)
(* so the test isEmpty && !isInTargetPath never excludes anything, and the *)
(* table linked one level up is returned as the empty table.               *)
(***************************************************************************)
C10_PathProtection ==
    (Sized /\ InRangeCall)
        => \A k \in 1 .. Len(faults) :
               \A j \in 1 .. Len(faults[k].path) :
                   faults[k].newFrame # faults[k].path[j]

(***************************************************************************)
(* The same vocabulary over the memory a fault step found (the RAM field   *)
(* of its record) instead of the memory the call left.                     *)
(***************************************************************************)
RECURSIVE FramesAtIn(_, _)
FramesAtIn(ram, d) ==
    IF d = 0 THEN {0}
    ELSE {ram[f][i] : f \in FramesAtIn(ram, d - 1), i \in Offsets}
             \cap (1 .. (NUM_FRAMES - 1))

TablesIn(ram) == UNION {FramesAtIn(ram, d) : d \in 0 .. (TABLES_DEPTH - 1)}

\* every frame some entry of the tree refers to
ReferencedIn(ram) == UNION {FramesAtIn(ram, d) : d \in 1 .. TABLES_DEPTH}

SlotsIn(ram) == {s \in TablesIn(ram) \X Offsets : ram[s[1]][s[2]] # 0}

\* a tree: every entry is a frame index, no frame is referred to twice
WellFormedIn(ram) ==
    /\ \A s \in SlotsIn(ram) : ram[s[1]][s[2]] \in 1 .. (NUM_FRAMES - 1)
    /\ \A s, t \in SlotsIn(ram) : s # t => ram[s[1]][s[2]] # ram[t[1]][t[2]]

RECURSIVE LeafIn(_, _, _, _)
LeafIn(ram, f, q, level) ==
    IF level = TABLES_DEPTH THEN f
    ELSE LET e == ram[f][extractBits(ShiftLeft(q, OFFSET_WIDTH), level)]
         IN  IF e \notin 1 .. (NUM_FRAMES - 1) THEN -1 ELSE LeafIn(ram, e, q, level + 1)

\* the pages that have a leaf frame
ResidentIn(ram) == {q \in 0 .. (NUM_PAGES - 1) : LeafIn(ram, 0, q, 0) # -1}

\* min(|p - q|, NUM_PAGES - |p - q|)
CyclicDist(p, q) ==
    LET d == IF p > q THEN p - q ELSE q - p
    IN  IF d < NUM_PAGES - d THEN d ELSE NUM_PAGES - d

(***************************************************************************)
(* C11  Victim page identity: when a fault step finds a well-formed tree   *)
(* and findFrame answers EVICT with frame f and page q, then q is the page *)
(* whose leaf is f: walking the level indices of q from the root ends in   *)
(* f.                                                                      *)
(* Fails on the code: the leaf branch of dfsSearch shifts the page number  *)
(* it was handed right by OFFSET_WIDTH once more, which drops the index of *)
(* the last level; with one table level every victim is called page 0.     *)
(***************************************************************************)
C11_VictimIdentity ==
    \A k \in 1 .. Len(faults) :
        (faults[k].frameType = 3 /\ WellFormedIn(faults[k].RAM))
            => LeafIn(faults[k].RAM, 0, faults[k].pageToEvict, 0) = faults[k].newFrame

(***************************************************************************)
(* C12  PMevict precondition: every PMevict(f, q) of an in-range VMread /  *)
(* VMwrite has f < NUM_FRAMES and q < NUM_PAGES and does not fail an       *)
(* assert of PMevict (q is not yet a key of the swap map).                 *)
(* Fails on the code: the victim is named as in C11, so a second eviction  *)
(* under the same wrong key finds the key in the swap map.                 *)
(***************************************************************************)
C12_EvictPrecondition ==
    InRangeCall
        => \A k \in 1 .. Len(calls) :
               calls[k][1] = "PMevict"
                   => /\ calls[k][2] < NUM_FRAMES
                      /\ calls[k][3] < NUM_PAGES
                      /\ ~(aborted /\ k = Len(calls))

(***************************************************************************)
(* C13  Eviction choice: when a fault step for page p finds a well-formed  *)
(* tree and findFrame answers EVICT, the victim page q is resident, is not *)
(* p, is at the largest cyclic distance from p among the resident pages    *)
(* other than p, is the first such page in DFS order (the smallest page    *)
(* index), and the parent link returned is the slot holding the victim     *)
(* frame.                                                                  *)
(* Fails on the code: the distances are taken from the page indices of     *)
(* C11, so with one table level every leaf is at the distance of page 0    *)
(* and the first leaf met wins.                                            *)
(***************************************************************************)
C13_EvictionChoice ==
    \A k \in 1 .. Len(faults) :
        (faults[k].frameType = 3 /\ WellFormedIn(faults[k].RAM))
            => LET p == faults[k].page
                   q == faults[k].pageToEvict
                   others == ResidentIn(faults[k].RAM) \ {p}
               IN  /\ q \in others
                   /\ \A r \in others :
                          \/ CyclicDist(p, r) < CyclicDist(p, q)
                          \/ (CyclicDist(p, r) = CyclicDist(p, q) /\ q <= r)
                   /\ faults[k].parentFrame \in Frames
                   /\ faults[k].parentIndex \in Offsets
                   /\ faults[k].RAM[faults[k].parentFrame][faults[k].parentIndex]
                          = faults[k].newFrame

(***************************************************************************)
(* C14  UNUSED means never-touched: when findFrame answers UNUSED (its     *)
(* fallback included), the frame is in [1, NUM_FRAMES), no entry of the    *)
(* tree refers to it, and it is not the walker's currentFrame.             *)
(* Fails on the code: when every leaf is skipped as "the target page" and  *)
(* no frame is left, the fallback answers frame 1 as UNUSED although a     *)
(* root slot still refers to it.                                           *)
(***************************************************************************)
C14_UnusedIsFree ==
    Sized
        => \A k \in 1 .. Len(faults) :
               faults[k].frameType = 2
                   => /\ faults[k].newFrame \in 1 .. (NUM_FRAMES - 1)
                      /\ faults[k].newFrame \notin ReferencedIn(faults[k].RAM)
                      /\ faults[k].newFrame # faults[k].currentFrame

\* the largest frame index the tree refers to, 0 for an empty tree
MaxFrameIn(ram) ==
    CHOOSE f \in ReferencedIn(ram) \cup {0} : \A g \in ReferencedIn(ram) : g <= f

\* the tables below the root with no entry at all
EmptyTablesIn(ram) ==
    {f \in TablesIn(ram) \ {0} : \A i \in Offsets : ram[f][i] = 0}

\* the frames a tree holding exactly the pages of T takes: the root, one table
\* per index prefix of each level below it, one leaf per page
FramesNeeded(T) ==
    1 + Cardinality({<<d, ShiftRight(q, (TABLES_DEPTH - d) * OFFSET_WIDTH)>> :
                         q \in T, d \in 1 .. (TABLES_DEPTH - 1)})
      + Cardinality(T)

\* the PMevict calls of the last public call, in order
EvictCalls == SelectSeq(calls, LAMBDA c : c[1] = "PMevict")

EvictFaults == SelectSeq(faults, LAMBDA ft : ft.frameType = 3)

(***************************************************************************)
(* C15  Eviction is the last resort: findFrame answers EVICT only when the *)
(* tree it searched has no empty table and its largest frame index plus    *)
(* one is not below NUM_FRAMES; translateAddress calls PMevict only for an *)
(* EVICT answer; and while the pages accessed so far need no more than     *)
(* NUM_FRAMES frames the eviction counter is 0.                            *)
(***************************************************************************)
C15_EvictLastResort ==
    /\ \A k \in 1 .. Len(faults) :
           faults[k].frameType = 3
               => /\ EmptyTablesIn(faults[k].RAM) = {}
                  /\ MaxFrameIn(faults[k].RAM) + 1 >= NUM_FRAMES
    /\ Len(EvictCalls) = Len(EvictFaults)
    /\ \A k \in 1 .. Len(EvictCalls) :
           /\ EvictCalls[k][2] = EvictFaults[k].newFrame
           /\ EvictCalls[k][3] = EvictFaults[k].pageToEvict
    /\ FramesNeeded(touched) <= NUM_FRAMES => evict_counter = 0

\* a fault step evicted a page from a tree that fills every frame, after more
\* pages were accessed than the frames can hold
C15_Witness ==
    /\ \E k \in 1 .. Len(faults) :
           /\ faults[k].frameType = 3 /\ faults[k].done
           /\ ReferencedIn(faults[k].RAM) = 1 .. (NUM_FRAMES - 1)
    /\ evict_counter = 1
    /\ FramesNeeded(touched) > NUM_FRAMES

\* the PM calls the four stages of a fault step are to make, stage by stage
StageUnlink(ft) ==
    IF ft.frameType \in {1, 3}
    THEN << <<"PMwrite", ft.parentFrame * PAGE_SIZE + ft.parentIndex, 0>> >>
    ELSE << >>

StageEvict(ft) ==
    IF ft.frameType = 3 THEN << <<"PMevict", ft.newFrame, ft.pageToEvict>> >> ELSE << >>

StagePrepare(ft) ==
    IF ft.level < TABLES_DEPTH - 1
    THEN [i \in 1 .. PAGE_SIZE |-> <<"PMwrite", ft.newFrame * PAGE_SIZE + (i - 1), 0>>]
    ELSE << <<"PMrestore", ft.newFrame, ft.page>> >>

StageLink(ft) == << <<"PMwrite", ft.tableAddress, ft.newFrame>> >>

Stages(ft) == StageUnlink(ft) \o StageEvict(ft) \o StagePrepare(ft) \o StageLink(ft)

\* the PM calls made after findFrame returned for fault step ft, at most n of them
CallsAfter(ft, n) ==
    SubSeq(calls, ft.at + 1, IF Len(calls) < ft.at + n THEN Len(calls) ELSE ft.at + n)

UsableFrame(ft) == ft.newFrame \in 1 .. (NUM_FRAMES - 1)

(***************************************************************************)
(* C16  Ordering of one fault: the PM calls of every fault step that got a *)
(* usable frame are, in this order, (1) the write of 0 into the chosen     *)
(* frame's old parent slot (EMPTY_TABLE and EVICT), (2) PMevict of the     *)
(* victim (EVICT only), (3) PAGE_SIZE writes of 0 over the frame (table    *)
(* level) or PMrestore of the target page (last level), (4) the write of   *)
(* the new frame index into the faulting slot; a step cut short by an      *)
(* assert made a prefix of them.                                           *)
(***************************************************************************)
C16_FaultOrder ==
    \A k \in 1 .. Len(faults) :
        UsableFrame(faults[k])
            => /\ CallsAfter(faults[k], Len(Stages(faults[k])))
                      = SubSeq(Stages(faults[k]), 1,
                               Len(CallsAfter(faults[k], Len(Stages(faults[k])))))
               /\ faults[k].done
                      => Len(CallsAfter(faults[k], Len(Stages(faults[k]))))
                             = Len(Stages(faults[k]))

\* a fault step unlinked a victim, evicted it, restored the target page and
\* linked the frame
C16_Witness ==
    /\ InRangeCall /\ ret = 1
    /\ \E k \in 1 .. Len(faults) :
           /\ faults[k].frameType = 3 /\ faults[k].done
           /\ faults[k].parentFrame * PAGE_SIZE + faults[k].parentIndex
                  # faults[k].tableAddress

(***************************************************************************)
(* C17  Zeroed tables: when a fault step installs a frame as a table       *)
(* (level < TABLES_DEPTH - 1), every word of that frame is 0 at the moment *)
(* the step has written its index into the faulting slot.                  *)
(* Fails on the code with three table levels: the frame chosen is the      *)
(* table the walker stands on (see C10), the faulting slot lies in that    *)
(* very frame, and the freshly zeroed table holds its own index.           *)
(***************************************************************************)
C17_ZeroedTables ==
    \A k \in 1 .. Len(faults) :
        (faults[k].done /\ faults[k].level < TABLES_DEPTH - 1)
            => \A i \in Offsets : faults[k].linked[faults[k].newFrame][i] = 0

(***************************************************************************)
(* C18  Translation failure is surfaced: when findFrame gives a fault step *)
(* no usable frame (0, or a value >= NUM_FRAMES), the VMread / VMwrite     *)
(* returns 0 and makes no PMread or PMwrite after it: no word of physical  *)
(* memory is read or written as data.                                      *)
(* Fails on the code: translateAddress returns 0 for "no frame", which is  *)
(* the physical address of the first word of the root table, and VMread /  *)
(* VMwrite use it.                                                         *)
(***************************************************************************)
C18_FailureSurfaced ==
    InRangeCall
        => \A k \in 1 .. Len(faults) :
               ~UsableFrame(faults[k])
                   => /\ ret = 0
                      /\ \A j \in (faults[k].at + 1) .. Len(calls) :
                             calls[j][1] \notin {"PMread", "PMwrite"}

(***************************************************************************)
(* C19  Residency after access: right after a successful in-range VMread / *)
(* VMwrite of address v in a sized build, the walk from frame 0 through    *)
(* the level indices of v meets only non-zero entries and ends at the      *)
(* frame whose word the call has just read or written.                     *)
(* Fails on the code with two or more table levels: the last fault step    *)
(* takes the table on the path as its "empty table" and unlinks it from    *)
(* the root (see C10), so the root is empty when the call returns and the  *)
(* next access to the same page faults again.                              *)
(***************************************************************************)
C19_ResidentAfterAccess ==
    (Sized /\ InRangeCall /\ ret = 1)
        => /\ Resident(getPageNumber(lastOp.addr))
           /\ calls[Len(calls)][2]
                  = LeafOf(0, getPageNumber(lastOp.addr), 0) * PAGE_SIZE
                        + getOffset(lastOp.addr)

\* the walk of translateAddress retraced on the PM call log: the position of
\* the call that follows its last level step, when the step of `level` is the
\* call at `pos` and k is the next fault step; -1 when the log is not one
\* PMread per level with at most one fault step between two of them
RECURSIVE WalkEnd(_, _, _)
WalkEnd(pos, level, k) ==
    IF level = TABLES_DEPTH THEN pos
    ELSE IF pos > Len(calls) \/ calls[pos][1] # "PMread" THEN -1
    ELSE IF k <= Len(faults) /\ faults[k].level = level
    THEN IF faults[k].done /\ faults[k].at >= pos
         THEN WalkEnd(faults[k].at + Len(Stages(faults[k])) + 1, level + 1, k + 1)
         ELSE -1
    ELSE WalkEnd(pos + 1, level + 1, k)

(***************************************************************************)
(* C20  Termination: every in-range VMread / VMwrite ends (it returns, or  *)
(* the process dies in an assert), whatever shape the table graph has: no  *)
(* activation of dfsSearch is deeper than TABLES_DEPTH, the fault steps of *)
(* one call are at strictly increasing levels below TABLES_DEPTH (at most  *)
(* one findFrame per level), and a call that returns 1 with every fault    *)
(* step completed made exactly TABLES_DEPTH level steps, the data access   *)
(* being the call right after the last of them.                            *)
(***************************************************************************)
C20_Termination ==
    InRangeCall
        => /\ (ret \in {0, 1}) # aborted
           /\ Len(faults) <= TABLES_DEPTH
           /\ \A k \in 1 .. Len(faults) :
                  /\ faults[k].deepest <= TABLES_DEPTH
                  /\ faults[k].level \in 0 .. (TABLES_DEPTH - 1)
                  /\ Len(faults[k].path) = faults[k].level + 1
                  /\ k > 1 => faults[k - 1].level < faults[k].level
           /\ (ret = 1 /\ \A k \in 1 .. Len(faults) : faults[k].done)
                  => WalkEnd(1, 0, 1) = Len(calls)

\* a call returned after its frame finder searched a graph that is no tree: two
\* slots refer to the same frame, and the search went down to the leaves
C20_Witness ==
    /\ InRangeCall /\ ret = 1
    /\ \E k \in 1 .. Len(faults) :
           /\ ~WellFormedIn(faults[k].RAM)
           /\ faults[k].deepest = TABLES_DEPTH
           /\ faults[k].done

=============================================================================
